---- MODULE Spec2Model ----
(***************************************************************************)
(* Model of the power monitor plugin, src/src/power.c.                     *)
(*                                                                         *)
(* The plugin runs on one GLib main loop.  Its state is the PowerPlugin    *)
(* context pt, the sources it registered with the main loop, the udev      *)
(* objects it owns, the events waiting on the two monitor sockets and the  *)
(* panel sink (icon, tooltip, notifications).  A handler runs to           *)
(* completion before the loop dispatches anything else: pc is "loop" when  *)
(* control is in the main loop and names the statement about to run while  *)
(* a handler is in progress.                                               *)
(*                                                                         *)
(* C strings are sequences of one-character strings; a byte is 0..255.     *)
(***************************************************************************)
EXTENDS Integers, Sequences, FiniteSets, TLC

VARIABLES
    is_pi,      \* what is_pi () answers on this hardware
    phase,      \* "new" (constructed), "live" (after power_init), "freed", "crashed"
    pt,         \* the PowerPlugin fields power.c uses
    sources,    \* GLib main context: the attached sources, [id, cb]
    nextId,     \* GLib's next source id
    objs,       \* live udev objects (udev context, the two monitors)
    pending,    \* events waiting on each monitor socket
    arrived,    \* events the kernel has sent so far
    pc,         \* position of the running handler, "loop" when none runs
    loc,        \* the running handler's locals (what it read)
    icon,       \* the panel sink: glyph, sensitivity, visibility, tooltip
    notified,   \* notifications posted so far, per message
    ran,        \* the startup checks executed so far, in order
    ocSeen,     \* counters of the confirmed overcurrent events handled so far
    released,   \* how many times each resource has been released
    releaseLog, \* the resources released so far, in the order of release
    faults      \* memory faults committed so far

vars == <<is_pi, phase, pt, sources, nextId, objs, pending, arrived, pc, loc,
          icon, notified, ran, ocSeen, released, releaseLog, faults>>

(***************************************************************************)
(* Bounds of the model.                                                    *)
(***************************************************************************)
MaxEvents == 3      \* events the kernel sends in one run
MaxPending == 1     \* events waiting on one socket
MaxDestroy == 2     \* calls of power_destructor in one run

(***************************************************************************)
(* Program constants.                                                      *)
(***************************************************************************)
ICON_LOW_VOLTAGE == 1
ICON_OVER_CURRENT == 2
ICON_BROWNOUT == 4
MEM_WARN_THRESHOLD == 2048
RES_HEIGHT_THRESHOLD == 1200
MEM_MIN == 256
PSU_MIN_CURRENT == 5000
RESET_LOW_POWER == 2
CHAR_ONE == 49
LAST_OC_INIT == -1
EOF == -1

(***************************************************************************)
(* C values.                                                               *)
(***************************************************************************)
Null == [isnull |-> TRUE, str |-> <<>>]
Str(s) == [isnull |-> FALSE, str |-> s]

NoFile == [present |-> FALSE, bytes |-> <<>>]
File(b) == [present |-> TRUE, bytes |-> b]

\* fgetc: the k-th byte read from a freshly opened file (k = 0, 1, ...), EOF past its end
fgetc(f, k) == IF k < Len(f.bytes) THEN f.bytes[k + 1] ELSE EOF

\* conversion of an int to unsigned char
ToUChar(c) == c % 256

\* x & m and x | m for a single-bit mask m; x may be negative (two's complement)
BitAnd(x, m) == IF (x \div m) % 2 = 1 THEN m ELSE 0
\* mutant: the flag is assigned (=) where the code ors it in (|=)
BitOrAssign(x, m) == m
BitOr(x, m) == IF BitAnd(x, m) = m THEN x ELSE x + m

\* The loop of check_psu and check_brownout: four fgetc results stored into
\* cptr[3], cptr[2], cptr[1], cptr[0] of an int on a little-endian host.
\* The int is signed, 32 bits wide: cptr[3] carries the sign.
read_int(f) ==
    LET cptr == [i \in 0..3 |-> ToUChar(fgetc(f, 3 - i))]
        top == IF cptr[3] >= 128 THEN cptr[3] - 256 ELSE cptr[3]
    IN  top * 16777216 + cptr[2] * 65536 + cptr[1] * 256 + cptr[0]

Digits == {"0", "1", "2", "3", "4", "5", "6", "7", "8", "9"}
DigitVal(c) ==
    CASE c = "0" -> 0 [] c = "1" -> 1 [] c = "2" -> 2 [] c = "3" -> 3
      [] c = "4" -> 4 [] c = "5" -> 5 [] c = "6" -> 6 [] c = "7" -> 7
      [] c = "8" -> 8 [] c = "9" -> 9
IsSpace(c) == c \in {" ", "\n", "\t", "\r"}

RECURSIVE SkipSpace(_, _)
SkipSpace(s, i) ==
    IF i <= Len(s) /\ IsSpace(s[i]) THEN SkipSpace(s, i + 1) ELSE i

RECURSIVE ScanDigits(_, _, _)
ScanDigits(s, i, acc) ==
    IF i <= Len(s) /\ s[i] \in Digits
    THEN ScanDigits(s, i + 1, [n |-> acc.n + 1, val |-> acc.val * 10 + DigitVal(s[i])])
    ELSE [n |-> acc.n, val |-> acc.val, next |-> i]

\* one %d conversion of sscanf starting at position i: leading white space,
\* an optional sign, at least one digit
ScanInt(s, i) ==
    LET j == SkipSpace(s, i)
        neg == j <= Len(s) /\ s[j] = "-"
        k == IF j <= Len(s) /\ s[j] \in {"-", "+"} THEN j + 1 ELSE j
        d == ScanDigits(s, k, [n |-> 0, val |-> 0])
    IN  [ok |-> d.n > 0, val |-> IF neg THEN 0 - d.val ELSE d.val, next |-> d.next]

\* sscanf (s, "%d", &v): the number of conversions and the value stored
sscanf_d(s) ==
    LET a == ScanInt(s, 1)
    IN  [n |-> IF a.ok THEN 1 ELSE 0, v |-> a.val]

\* sscanf (s, "%dx%d", &w, &h)
sscanf_dxd(s) ==
    LET a == ScanInt(s, 1)
        lit == a.ok /\ a.next <= Len(s) /\ s[a.next] = "x"
        b == ScanInt(s, a.next + 1)
    IN  IF ~a.ok THEN [n |-> 0, w |-> 0, h |-> 0]
        ELSE IF ~lit \/ ~b.ok THEN [n |-> 1, w |-> a.val, h |-> 0]
        ELSE [n |-> 2, w |-> a.val, h |-> b.val]

\* strncmp (s, p, Len(p)) == 0
HasPrefix(s, p) == Len(s) >= Len(p) /\ SubSeq(s, 1, Len(p)) = p

RECURSIVE FirstSpace(_, _)
FirstSpace(s, i) ==
    IF i > Len(s) \/ IsSpace(s[i]) THEN i ELSE FirstSpace(s, i + 1)

\* get_string: the first line a command prints, cut at its first white
\* space; NULL when the command prints nothing.  out is the line getline reads.
get_string(out) ==
    IF out.isnull \/ Len(out.str) = 0 THEN Null
    ELSE Str(SubSeq(out.str, 1, FirstSpace(out.str, 1) - 1))

(***************************************************************************)
(* The panel sink.                                                         *)
(***************************************************************************)
Messages == {"psu", "brownout", "memres", "userwarn", "overcurrent", "lowvoltage"}
Severity(m) == IF m \in {"brownout", "overcurrent", "lowvoltage"} THEN "Critical" ELSE "Advisory"

\* wrap_notify and wrap_critical post message m, k times
Post(n, m, k) == [n EXCEPT ![m] = @ + k]

LINE_LOW_VOLTAGE == <<"PSU low voltage detected", "\n">>
LINE_OVER_CURRENT == <<"USB over current detected", "\n">>
LINE_BROWNOUT == <<"Low power reset has occurred", "\n">>

\* mutant: the tooltip keeps its last line break
update_icon_keep_break(show_icon, ic) ==
    LET tooltip ==
            (IF BitAnd(show_icon, ICON_LOW_VOLTAGE) # 0 THEN LINE_LOW_VOLTAGE ELSE <<>>)
            \o (IF BitAnd(show_icon, ICON_OVER_CURRENT) # 0 THEN LINE_OVER_CURRENT ELSE <<>>)
            \o (IF BitAnd(show_icon, ICON_BROWNOUT) # 0 THEN LINE_BROWNOUT ELSE <<>>)
    IN  IF show_icon = 0
        THEN [ic EXCEPT !.glyph = "under-volt", !.sensitive = FALSE, !.visible = FALSE]
        ELSE [glyph |-> "under-volt", sensitive |-> TRUE, visible |-> TRUE,
              tooltip_set |-> TRUE, tooltip |-> tooltip]

\* mutant: the display is left as it is
update_icon_skipped(show_icon, ic) == ic

\* update_icon
update_icon(show_icon, ic) ==
    LET tooltip ==
            (IF BitAnd(show_icon, ICON_LOW_VOLTAGE) # 0 THEN LINE_LOW_VOLTAGE ELSE <<>>)
            \o (IF BitAnd(show_icon, ICON_OVER_CURRENT) # 0 THEN LINE_OVER_CURRENT ELSE <<>>)
            \o (IF BitAnd(show_icon, ICON_BROWNOUT) # 0 THEN LINE_BROWNOUT ELSE <<>>)
    IN  IF show_icon = 0
        THEN [ic EXCEPT !.glyph = "under-volt", !.sensitive = FALSE, !.visible = FALSE]
        ELSE [glyph |-> "under-volt", sensitive |-> TRUE, visible |-> TRUE,
              tooltip_set |-> TRUE,
              tooltip |-> SubSeq(tooltip, 1, Len(tooltip) - 1)]

(***************************************************************************)
(* Construction and power_init.                                            *)
(***************************************************************************)
Resources == {"overcurrent_src", "lowvoltage_src", "startup_src",
              "udev_mon_oc", "udev_mon_lv", "udev", "pt"}

NoLoc == [fn |-> "none"]

Init ==
    /\ is_pi \in BOOLEAN
    /\ phase = "new"
    /\ pt = [show_icon |-> 0, last_oc |-> 0,
             udev |-> "NULL", udev_mon_oc |-> "NULL", udev_mon_lv |-> "NULL",
             overcurrent_id |-> 0, lowvoltage_id |-> 0, startup_id |-> 0]
    /\ sources = {}
    /\ nextId = 1
    /\ objs = {}
    /\ pending = [oc |-> 0, lv |-> 0]
    /\ arrived = 0
    /\ pc = "loop"
    /\ loc = NoLoc
    /\ icon = [glyph |-> "", sensitive |-> TRUE, visible |-> FALSE,
               tooltip_set |-> FALSE, tooltip |-> <<>>]
    /\ notified = [m \in Messages |-> 0]
    /\ ran = <<>>
    /\ ocSeen = <<>>
    /\ released = [r \in Resources |-> 0]
    /\ releaseLog = <<>>
    /\ faults = {}

\* mutant: the monitors are set up whatever the hardware
OnTargetAlways == TRUE
\* the test of line 352
OnTarget == is_pi

\* power_init; udevOk, ocOk, lvOk: whether udev_new and the two
\* udev_monitor_new_from_netlink calls succeed
power_init(udevOk, ocOk, lvOk) ==
    LET oc == udevOk /\ ocOk
        lv == udevOk /\ lvOk
        ocId == nextId
        lvId == IF oc THEN nextId + 1 ELSE nextId
        stId == IF lv THEN lvId + 1 ELSE lvId
    IN
    /\ phase = "new"
    /\ phase' = "live"
    /\ IF OnTarget
       THEN /\ pt' = [show_icon |-> 0, last_oc |-> LAST_OC_INIT,
                      udev |-> IF udevOk THEN "udev" ELSE "NULL",
                      udev_mon_oc |-> IF oc THEN "udev_mon_oc" ELSE "NULL",
                      udev_mon_lv |-> IF lv THEN "udev_mon_lv" ELSE "NULL",
                      overcurrent_id |-> IF oc THEN ocId ELSE 0,
                      lowvoltage_id |-> IF lv THEN lvId ELSE 0,
                      startup_id |-> stId]
            /\ objs' = (IF udevOk THEN {"udev"} ELSE {})
                         \cup (IF oc THEN {"udev_mon_oc"} ELSE {})
                         \cup (IF lv THEN {"udev_mon_lv"} ELSE {})
            /\ sources' = (IF oc THEN {[id |-> ocId, cb |-> "cb_overcurrent_fd"]} ELSE {})
                            \cup (IF lv THEN {[id |-> lvId, cb |-> "cb_lowvoltage_fd"]} ELSE {})
                            \cup {[id |-> stId, cb |-> "startup_checks"]}
            /\ nextId' = stId + 1
       ELSE /\ pt' = [pt EXCEPT !.show_icon = 0, !.udev = "NULL",
                                !.udev_mon_oc = "NULL", !.udev_mon_lv = "NULL",
                                !.overcurrent_id = 0, !.lowvoltage_id = 0,
                                !.startup_id = 0]
            /\ UNCHANGED <<objs, sources, nextId>>
    /\ UNCHANGED <<is_pi, pending, arrived, pc, loc, icon, notified, ran, ocSeen,
                   released, releaseLog, faults>>

(***************************************************************************)
(* Device events.                                                          *)
(*                                                                         *)
(* An event is what udev_monitor_receive_device returns (dev = FALSE: no   *)
(* record) together with the attribute file the callback opens for it, as  *)
(* that file reads when the callback runs.                                 *)
(***************************************************************************)
PORT == Str(<<"u", "s", "b", "1">>)
ONE == File(<<49, 10>>)
ZERO == File(<<48, 10>>)

OcEvent(action, port, disable, count) ==
    [dev |-> TRUE, action |-> action, port |-> port, disable |-> disable, count |-> count]

NoDevice == [dev |-> FALSE]

OcCounts == {<<"7">>, <<"8">>, <<"-", "1">>}

OcEvents ==
    {OcEvent("change", PORT, ONE, Str(c)) : c \in OcCounts}
    \cup {OcEvent("add", PORT, ONE, Str(<<"7">>)),
          OcEvent("change", PORT, ZERO, Str(<<"8">>)),
          OcEvent("change", PORT, NoFile, Str(<<"7">>)),
          OcEvent("change", Null, ONE, Str(<<"7">>)),
          OcEvent("change", PORT, ONE, Str(<<"x">>)),
          OcEvent("change", PORT, ONE, Null),
          NoDevice}

LvEvent(action, sysname, alarm) ==
    [dev |-> TRUE, action |-> action, sysname |-> sysname, alarm |-> alarm]

HWMON3 == <<"h", "w", "m", "o", "n", "3">>

LvEvents ==
    {LvEvent("change", HWMON3, ONE),
     LvEvent("change", HWMON3, ZERO),
     LvEvent("change", HWMON3, NoFile),
     LvEvent("remove", HWMON3, ONE),
     LvEvent("change", <<"h", "w", "m", "o">>, ONE),
     NoDevice}

\* The kernel sends an event of a subsystem a monitor listens to.  No
\* handler looks at the sockets, so an event sent while a handler runs is
\* one sent right after it.
KernelEvent(ch) ==
    /\ phase = "live"
    /\ pc = "loop"
    /\ (IF ch = "oc" THEN pt.udev_mon_oc ELSE pt.udev_mon_lv) \in objs
    /\ arrived < MaxEvents
    /\ pending[ch] < MaxPending
    /\ pending' = [pending EXCEPT ![ch] = @ + 1]
    /\ arrived' = arrived + 1
    /\ UNCHANGED <<is_pi, phase, pt, sources, nextId, objs, pc, loc, icon,
                   notified, ran, ocSeen, released, releaseLog, faults>>

Attached(cb) == \E s \in sources : s.cb = cb

\* an fd source whose socket is readable is ready
FdReady ==
    \/ Attached("cb_overcurrent_fd") /\ pending.oc > 0
    \/ Attached("cb_lowvoltage_fd") /\ pending.lv > 0

\* mutant: every return value removes the source
SourceReturnRemove(cb, keep) == {s \in sources : s.cb # cb}
\* what a GSourceFunc's return value does to its source
SourceReturn(cb, keep) ==
    IF keep THEN sources ELSE {s \in sources : s.cb # cb}

\* the main loop calls cb_overcurrent_fd, which receives one record; the loop
\* dispatches every attached source that is ready, and knows nothing of the
\* plugin structure its callback was given
receive_overcurrent(ev) ==
    /\ phase \in {"live", "freed"}
    /\ pc = "loop"
    /\ Attached("cb_overcurrent_fd")
    /\ pending.oc > 0
    /\ pending' = [pending EXCEPT !.oc = @ - 1]
    /\ pc' = "cb_overcurrent_fd"
    /\ loc' = [fn |-> "cb_overcurrent_fd", ev |-> ev]
    /\ UNCHANGED <<is_pi, phase, pt, sources, nextId, objs, arrived, icon,
                   notified, ran, ocSeen, released, releaseLog, faults>>

\* the file cb_overcurrent_fd opens: /sys/<OVER_CURRENT_PORT>/disable; a
\* missing property prints as "(null)", a path that does not exist
OcDisableFile(ev) == IF ev.port.isnull THEN NoFile ELSE ev.disable

\* mutant: the counter is not compared with the last one
OcIsNewNoDedup(count, last_oc) == sscanf_d(count.str).n = 1
\* the test of line 226 on a present OVER_CURRENT_COUNT property
OcIsNew(count, last_oc) ==
    LET r == sscanf_d(count.str) IN r.n = 1 /\ r.v # last_oc

\* lines 224 to 232 once the file is open and its first byte is '1'
OcConfirmed ==
    LET count == loc.ev.count
        val == sscanf_d(count.str).v
    IN
    IF count.isnull
    THEN \* sscanf reads a NULL string: undefined behaviour
         /\ \/ /\ phase' = "crashed"
               /\ pc' = "loop"
               /\ loc' = NoLoc
            \/ /\ phase' = phase
               /\ pc' = "loop"
               /\ loc' = NoLoc
         /\ faults' = faults \cup {"null_deref"}
         /\ UNCHANGED <<pt, icon, notified, ocSeen>>
    ELSE /\ IF OcIsNew(count, pt.last_oc)
            THEN /\ notified' = Post(notified, "overcurrent", 1)
                 /\ icon' = update_icon(BitOr(pt.show_icon, ICON_OVER_CURRENT), icon)
                 /\ pt' = [pt EXCEPT !.show_icon = BitOr(@, ICON_OVER_CURRENT),
                                     !.last_oc = val]
            ELSE UNCHANGED <<pt, icon, notified>>
         /\ ocSeen' = IF sscanf_d(count.str).n = 1 THEN Append(ocSeen, val) ELSE ocSeen
         /\ phase' = phase
         /\ pc' = "loop"
         /\ loc' = NoLoc
         /\ UNCHANGED faults

\* cb_overcurrent_fd after the receive
cb_overcurrent_fd ==
    /\ pc = "cb_overcurrent_fd"
    /\ IF /\ loc.ev.dev
          /\ loc.ev.action = "change"
          /\ OcDisableFile(loc.ev).present
          /\ fgetc(OcDisableFile(loc.ev), 0) = CHAR_ONE
       THEN OcConfirmed
       ELSE /\ pc' = "loop"
            /\ loc' = NoLoc
            /\ UNCHANGED <<phase, pt, icon, notified, ocSeen, faults>>
    /\ sources' = SourceReturn("cb_overcurrent_fd", TRUE)
    /\ UNCHANGED <<is_pi, nextId, objs, pending, arrived, ran, released, releaseLog>>

\* the main loop calls cb_lowvoltage_fd, which receives one record
receive_lowvoltage(ev) ==
    /\ phase \in {"live", "freed"}
    /\ pc = "loop"
    /\ Attached("cb_lowvoltage_fd")
    /\ pending.lv > 0
    /\ pending' = [pending EXCEPT !.lv = @ - 1]
    /\ pc' = "cb_lowvoltage_fd"
    /\ loc' = [fn |-> "cb_lowvoltage_fd", ev |-> ev]
    /\ UNCHANGED <<is_pi, phase, pt, sources, nextId, objs, arrived, icon,
                   notified, ran, ocSeen, released, releaseLog, faults>>

\* mutant: an event is confirmed only while the flag is not yet set
LvConfirmedOnce(ev) ==
    /\ ev.dev
    /\ ev.action = "change"
    /\ HasPrefix(ev.sysname, <<"h", "w", "m", "o", "n">>)
    /\ ev.alarm.present
    /\ fgetc(ev.alarm, 0) = CHAR_ONE
    /\ BitAnd(pt.show_icon, ICON_LOW_VOLTAGE) = 0
\* mutant: the device name is not tested
LvConfirmedAnyName(ev) ==
    /\ ev.dev
    /\ ev.action = "change"
    /\ ev.alarm.present
    /\ fgetc(ev.alarm, 0) = CHAR_ONE
\* the test of lines 254 to 260
LvConfirmed(ev) ==
    /\ ev.dev
    /\ ev.action = "change"
    /\ HasPrefix(ev.sysname, <<"h", "w", "m", "o", "n">>)
    /\ ev.alarm.present
    /\ fgetc(ev.alarm, 0) = CHAR_ONE

\* cb_lowvoltage_fd after the receive
cb_lowvoltage_fd ==
    /\ pc = "cb_lowvoltage_fd"
    /\ IF LvConfirmed(loc.ev)
       THEN /\ notified' = Post(notified, "lowvoltage", 1)
            /\ icon' = update_icon(BitOr(pt.show_icon, ICON_LOW_VOLTAGE), icon)
            /\ pt' = [pt EXCEPT !.show_icon = BitOr(@, ICON_LOW_VOLTAGE)]
       ELSE UNCHANGED <<pt, icon, notified>>
    /\ pc' = "loop"
    /\ loc' = NoLoc
    /\ sources' = SourceReturn("cb_lowvoltage_fd", TRUE)
    /\ UNCHANGED <<is_pi, phase, nextId, objs, pending, arrived, ran, ocSeen,
                   released, releaseLog, faults>>

\* power_update_display: the panel's reconfigure signal
power_update_display ==
    /\ phase = "live"
    /\ pc = "loop"
    /\ icon' = update_icon(pt.show_icon, icon)
    /\ UNCHANGED <<is_pi, phase, pt, sources, nextId, objs, pending, arrived, pc,
                   loc, notified, ran, ocSeen, released, releaseLog, faults>>

(***************************************************************************)
(* The startup checks.  startup_checks is one handler; pc walks through    *)
(* its four calls and its return, and nothing else runs in between.        *)
(***************************************************************************)
MaxStartupRuns == 2     \* runs of startup_checks the model follows

\* contents of /proc/device-tree/chosen/power/max_current:
\* 4999, 5000, 0x80000000, an empty file, no file
PsuFiles ==
    {NoFile, File(<<0, 0, 19, 135>>), File(<<0, 0, 19, 136>>),
     File(<<128, 0, 0, 0>>), File(<<>>)}

\* contents of /proc/device-tree/chosen/power/power_reset
ResetFiles ==
    {NoFile, File(<<0, 0, 0, 2>>), File(<<0, 0, 0, 0>>), File(<<0, 0, 0, 5>>),
     File(<<0, 0, 0>>)}

\* first line printed by the total_mem pipeline
MEM_255 == Str(<<"2", "5", "5", "\n">>)
MEM_256 == Str(<<"2", "5", "6", "\n">>)
MEM_2048 == Str(<<"2", "0", "4", "8", "\n">>)
MEM_2049 == Str(<<"2", "0", "4", "9", "\n">>)
MEM_BAD == Str(<<"x", "\n">>)
MEM_EMPTY == Str(<<"\n">>)

\* first line printed by a wlr-randr pipeline
RES_1200 == Str(<<"1", "9", "2", "0", "x", "1", "2", "0", "0", "\n">>)
RES_1201 == Str(<<"1", "9", "2", "0", "x", "1", "2", "0", "1", "\n">>)
RES_BAD == Str(<<"1", "9", "2", "0", "\n">>)

\* what the HDMI-A-1 and the HDMI-A-2 pipeline print
ResOutputs ==
    {<<Null, Null>>, <<RES_1200, Null>>, <<RES_1201, Null>>, <<Null, RES_1201>>,
     <<RES_1201, RES_1200>>, <<RES_1200, RES_1200>>, <<RES_BAD, RES_1201>>,
     <<RES_BAD, Null>>}

\* what the three pipelines of check_memres print: <<mem, HDMI-A-1, HDMI-A-2>>
MemresInputs ==
    {<<m, o[1], o[2]>> : m \in {MEM_256, MEM_2048}, o \in ResOutputs}
    \cup {<<m, o[1], o[2]>> : m \in {MEM_255, MEM_2049},
                              o \in {<<Null, Null>>, <<RES_1201, Null>>}}
    \cup {<<m, RES_1201, Null>> : m \in {Null, MEM_EMPTY, MEM_BAD}}

\* /proc/device-tree/chosen/user-warnings: absent, or its lines
WarnFiles ==
    {[present |-> FALSE, lines |-> <<>>],
     [present |-> TRUE, lines |-> <<>>],
     [present |-> TRUE, lines |-> <<"warning 1">>],
     [present |-> TRUE, lines |-> <<"warning 1", "warning 2">>]}

\* an idle source runs when no source of higher priority is ready
IdleReady == Attached("startup_checks") /\ ~FdReady

\* check_psu: does it post its message?  exempt: raspi-config nonint
\* is_cmfive exits 0; f: the max_current file
PsuWarns(exempt, f) ==
    /\ ~exempt
    /\ f.present
    /\ read_int(f) < PSU_MIN_CURRENT

\* the main loop calls startup_checks, which calls check_psu
check_psu(exempt, f) ==
    /\ phase \in {"live", "freed"}
    /\ pc = "loop"
    /\ IdleReady
    /\ Len(ran) < 4 * MaxStartupRuns
    /\ notified' = IF PsuWarns(exempt, f) THEN Post(notified, "psu", 1) ELSE notified
    /\ pc' = "check_brownout"
    /\ loc' = [fn |-> "check_psu", exempt |-> exempt, file |-> f]
    /\ ran' = Append(ran, "check_psu")
    /\ UNCHANGED <<is_pi, phase, pt, sources, nextId, objs, pending, arrived, icon,
                   ocSeen, released, releaseLog, faults>>

\* mutant: the wrong bit of the reset reason is tested
BrownoutSeenBit0(f) ==
    /\ f.present
    /\ BitAnd(read_int(f), 1) # 0

\* check_brownout: the test of lines 105 to 109
BrownoutSeen(f) ==
    /\ f.present
    /\ BitAnd(read_int(f), RESET_LOW_POWER) # 0

check_brownout(f) ==
    /\ pc = "check_brownout"
    /\ IF BrownoutSeen(f)
       THEN /\ notified' = Post(notified, "brownout", 1)
            /\ icon' = update_icon(BitOr(pt.show_icon, ICON_BROWNOUT), icon)
            /\ pt' = [pt EXCEPT !.show_icon = BitOr(@, ICON_BROWNOUT)]
       ELSE UNCHANGED <<pt, icon, notified>>
    /\ pc' = "check_memres"
    /\ loc' = [fn |-> "check_brownout", file |-> f]
    /\ ran' = Append(ran, "check_brownout")
    /\ UNCHANGED <<is_pi, phase, sources, nextId, objs, pending, arrived, ocSeen,
                   released, releaseLog, faults>>

\* mutant: the upper memory bound is exclusive
MemInRangeExclusive(memOut) ==
    LET res == get_string(memOut)
        r == sscanf_d(res.str)
    IN  /\ ~res.isnull
        /\ r.n = 1
        /\ ~(r.v < MEM_MIN \/ r.v >= MEM_WARN_THRESHOLD)

\* check_memres: does it get as far as probing the outputs?
MemInRange(memOut) ==
    LET res == get_string(memOut)
        r == sscanf_d(res.str)
    IN  /\ ~res.isnull
        /\ r.n = 1
        /\ ~(r.v < MEM_MIN \/ r.v > MEM_WARN_THRESHOLD)

\* lines 173 to 178 and 181 to 186: one output's contribution to max_h
MaxHeight(out, max_h) ==
    LET res == get_string(out)
        r == sscanf_dxd(res.str)
    IN  IF ~res.isnull /\ r.n = 2 /\ r.h > max_h THEN r.h ELSE max_h

MemresWarns(memOut, out1, out2) ==
    /\ MemInRange(memOut)
    /\ MaxHeight(out2, MaxHeight(out1, 0)) > RES_HEIGHT_THRESHOLD

check_memres(memOut, out1, out2) ==
    /\ pc = "check_memres"
    /\ notified' = IF MemresWarns(memOut, out1, out2)
                   THEN Post(notified, "memres", 1) ELSE notified
    /\ pc' = "check_user_warnings"
    /\ loc' = [fn |-> "check_memres", mem |-> memOut, out1 |-> out1, out2 |-> out2]
    /\ ran' = Append(ran, "check_memres")
    /\ UNCHANGED <<is_pi, phase, pt, sources, nextId, objs, pending, arrived, icon,
                   ocSeen, released, releaseLog, faults>>

\* check_user_warnings: one message for each line of the file
check_user_warnings(w) ==
    /\ pc = "check_user_warnings"
    /\ notified' = IF w.present THEN Post(notified, "userwarn", Len(w.lines)) ELSE notified
    /\ pc' = "startup_return"
    /\ loc' = [fn |-> "check_user_warnings", file |-> w]
    /\ ran' = Append(ran, "check_user_warnings")
    /\ UNCHANGED <<is_pi, phase, pt, sources, nextId, objs, pending, arrived, icon,
                   ocSeen, released, releaseLog, faults>>

\* lines 203 and 204 of startup_checks
startup_return ==
    /\ pc = "startup_return"
    /\ pt' = [pt EXCEPT !.startup_id = 0]
    /\ sources' = SourceReturn("startup_checks", FALSE)
    /\ pc' = "loop"
    /\ loc' = NoLoc
    /\ UNCHANGED <<is_pi, phase, nextId, objs, pending, arrived, icon, notified,
                   ran, ocSeen, released, releaseLog, faults>>

(***************************************************************************)
(* power_destructor.                                                       *)
(***************************************************************************)
\* what reading pt yields once pt has been freed: the values last stored,
\* or whatever the allocator has put there since
FreedReads ==
    {pt,
     [pt EXCEPT !.overcurrent_id = 1, !.lowvoltage_id = 2, !.startup_id = 3,
                !.udev_mon_oc = "udev_mon_oc", !.udev_mon_lv = "udev_mon_lv",
                !.udev = "udev"]}

SourceIds == {s.id : s \in sources}

\* mutant: the udev objects are released before the sources are removed
ReleaseOrderObjectsFirst ==
    <<"udev", "udev_mon_oc", "udev_mon_lv",
      "overcurrent_src", "lowvoltage_src", "startup_src", "pt">>
\* the releases of lines 382 to 395, in the order of the statements
ReleaseOrder ==
    <<"overcurrent_src", "lowvoltage_src", "startup_src",
      "udev_mon_oc", "udev_mon_lv", "udev", "pt">>

\* mutant: every release is unconditional
ReleasesUnguarded(p, r) == TRUE
\* the test that guards the release of r, on the field values p
Releases(p, r) ==
    CASE r = "overcurrent_src" -> p.overcurrent_id > 0
      [] r = "lowvoltage_src" -> p.lowvoltage_id > 0
      [] r = "startup_src" -> p.startup_id > 0
      [] r = "udev_mon_oc" -> p.udev_mon_oc # "NULL"
      [] r = "udev_mon_lv" -> p.udev_mon_lv # "NULL"
      [] r = "udev" -> p.udev # "NULL"
      [] r = "pt" -> TRUE

\* mutant: the startup task is not cancelled
RemovedFdOnly(p) == {p.overcurrent_id, p.lowvoltage_id} \ {0}
\* the ids power_destructor passes to g_source_remove
Removed(p) == {p.overcurrent_id, p.lowvoltage_id, p.startup_id} \ {0}

\* the body of power_destructor on the field values p it reads
Destroy(p) ==
    LET ids == Removed(p)
        ptrs == {p.udev_mon_oc, p.udev_mon_lv, p.udev} \ {"NULL"}
    IN
    /\ sources' = {s \in sources : s.id \notin ids}
    /\ objs' = objs \ ptrs
    /\ released' = [r \in Resources |->
                        released[r] + (IF Releases(p, r) THEN 1 ELSE 0)]
    /\ releaseLog' = releaseLog \o SelectSeq(ReleaseOrder, LAMBDA r : Releases(p, r))
    /\ faults' = faults
            \cup (IF phase = "freed" THEN {"use_after_free", "double_free"} ELSE {})
            \cup (IF ids \subseteq SourceIds THEN {} ELSE {"bad_source_remove"})
            \cup (IF ptrs \subseteq objs THEN {} ELSE {"dangling_unref"})
    /\ pt' = [pt EXCEPT !.overcurrent_id = 0, !.lowvoltage_id = 0, !.startup_id = 0,
                        !.udev_mon_oc = "NULL", !.udev_mon_lv = "NULL",
                        !.udev = "NULL"]
    /\ pending' = [oc |-> 0, lv |-> 0]
    /\ phase' = "freed"

power_destructor ==
    /\ phase \in {"live", "freed"}
    /\ pc = "loop"
    /\ released["pt"] < MaxDestroy
    /\ IF phase = "live" THEN Destroy(pt) ELSE \E p \in FreedReads : Destroy(p)
    /\ UNCHANGED <<is_pi, nextId, arrived, pc, loc, icon, notified, ran, ocSeen>>

(***************************************************************************)
(* The specification.                                                      *)
(***************************************************************************)
Next ==
    \/ \E udevOk, ocOk, lvOk \in BOOLEAN : power_init(udevOk, ocOk, lvOk)
    \/ \E ch \in {"oc", "lv"} : KernelEvent(ch)
    \/ \E ev \in OcEvents : receive_overcurrent(ev)
    \/ cb_overcurrent_fd
    \/ \E ev \in LvEvents : receive_lowvoltage(ev)
    \/ cb_lowvoltage_fd
    \/ power_update_display
    \/ \E exempt \in BOOLEAN, f \in PsuFiles : check_psu(exempt, f)
    \/ \E f \in ResetFiles : check_brownout(f)
    \/ \E in \in MemresInputs : check_memres(in[1], in[2], in[3])
    \/ \E w \in WarnFiles : check_user_warnings(w)
    \/ startup_return
    \/ power_destructor

Spec == Init /\ [][Next]_vars

\* The main loop dispatches a source that stays ready, and a handler that
\* has started runs to its end.
Fairness ==
    /\ WF_vars(\E ev \in OcEvents : receive_overcurrent(ev))
    /\ WF_vars(cb_overcurrent_fd)
    /\ WF_vars(\E ev \in LvEvents : receive_lowvoltage(ev))
    /\ WF_vars(cb_lowvoltage_fd)
    /\ WF_vars(\E exempt \in BOOLEAN, f \in PsuFiles : check_psu(exempt, f))
    /\ WF_vars(\E f \in ResetFiles : check_brownout(f))
    /\ WF_vars(\E in \in MemresInputs : check_memres(in[1], in[2], in[3]))
    /\ WF_vars(\E w \in WarnFiles : check_user_warnings(w))
    /\ WF_vars(startup_return)

FairSpec == Spec /\ Fairness

(***************************************************************************)
(* Properties.                                                             *)
(***************************************************************************)
\* the hazard flags held in a show_icon value
Flags(x) ==
    {f \in {"LowVoltage", "OverCurrent", "Brownout"} :
        \/ f = "LowVoltage" /\ x % 2 = 1
        \/ f = "OverCurrent" /\ (x \div 2) % 2 = 1
        \/ f = "Brownout" /\ (x \div 4) % 2 = 1}

\* the integer an OVER_CURRENT_COUNT text denotes, when it denotes one
CountIsInt(c) == ~c.isnull /\ c.str \in {<<"7">>, <<"8">>, <<"-", "1">>}
CountInt(c) ==
    CASE c.str = <<"7">> -> 7
      [] c.str = <<"8">> -> 8
      [] c.str = <<"-", "1">> -> -1

FirstByteIsOne(f) == f.present /\ Len(f.bytes) > 0 /\ f.bytes[1] = 49

\* an overcurrent event that asks for a notification, given the stored counter
C1_Fires(ev, last) ==
    /\ ev.dev
    /\ ev.action = "change"
    /\ ~ev.port.isnull
    /\ FirstByteIsOne(ev.disable)
    /\ CountIsInt(ev.count)
    /\ CountInt(ev.count) # last

\* the number of values of s that differ from their predecessor, last before s[1]
RECURSIVE Changes(_, _)
Changes(s, last) ==
    IF s = <<>> THEN 0
    ELSE (IF s[1] # last THEN 1 ELSE 0) + Changes(Tail(s), s[1])

\* C1: cb_overcurrent_fd posts one Critical, sets OverCurrent and stores the
\* event's counter exactly when the action is "change", the disable file's
\* first byte is '1' and the counter is an integer other than the stored
\* one; otherwise it posts nothing and leaves flags and counter alone.  So
\* the Criticals posted count the changes of counter among the confirmed
\* events, and counters 7, 7, 8 give two Criticals and a stored 8.
C1_Overcurrent ==
    /\ [][pc = "cb_overcurrent_fd" =>
            IF C1_Fires(loc.ev, pt.last_oc)
            THEN /\ notified' = [notified EXCEPT !["overcurrent"] = @ + 1]
                 /\ Flags(pt'.show_icon) = Flags(pt.show_icon) \cup {"OverCurrent"}
                 /\ pt'.last_oc = CountInt(loc.ev.count)
            ELSE /\ notified' = notified
                 /\ pt'.show_icon = pt.show_icon
                 /\ pt'.last_oc = pt.last_oc]_vars
    /\ [](is_pi /\ phase \in {"live", "crashed"} =>
            /\ notified["overcurrent"] = Changes(ocSeen, -1)
            /\ (ocSeen = <<7, 7, 8>> =>
                    notified["overcurrent"] = 2 /\ pt.last_oc = 8))

C1_Witness ==
    /\ phase = "live"
    /\ ocSeen = <<7, 7, 8>>
    /\ notified["overcurrent"] = 2
    /\ pt.last_oc = 8
    /\ "OverCurrent" \in Flags(pt.show_icon)

\* a low-voltage event that asks for a notification
C2_Fires(ev) ==
    /\ ev.dev
    /\ ev.action = "change"
    /\ Len(ev.sysname) >= 5
    /\ <<ev.sysname[1], ev.sysname[2], ev.sysname[3], ev.sysname[4], ev.sysname[5]>>
         = <<"h", "w", "m", "o", "n">>
    /\ FirstByteIsOne(ev.alarm)

\* C2: cb_lowvoltage_fd posts one Critical and sets LowVoltage exactly when
\* the action is "change", the sysname begins with "hwmon" and the first
\* byte of in0_lcrit_alarm is '1'; otherwise it posts nothing and leaves
\* the flags alone.
C2_LowVoltage ==
    [][pc = "cb_lowvoltage_fd" =>
        IF C2_Fires(loc.ev)
        THEN /\ notified' = [notified EXCEPT !["lowvoltage"] = @ + 1]
             /\ Flags(pt'.show_icon) = Flags(pt.show_icon) \cup {"LowVoltage"}
        ELSE /\ notified' = notified
             /\ pt'.show_icon = pt.show_icon]_vars

C2_Witness ==
    /\ phase = "live"
    /\ pc = "loop"
    /\ notified["lowvoltage"] = 1
    /\ Flags(pt.show_icon) = {"LowVoltage"}

\* C3: between power_init and power_destructor the set of hazard flags only
\* grows, whatever events, startup checks and reconfigure signals occur.
C3_Sticky ==
    [][phase = "live" /\ phase' # "freed" =>
        Flags(pt.show_icon) \subseteq Flags(pt'.show_icon)]_vars

\* the alarm reads '0' after the flag was set, and further flags are set too
C3_Witness ==
    /\ pc = "cb_lowvoltage_fd"
    /\ loc.ev = LvEvent("change", HWMON3, ZERO)
    /\ Flags(pt.show_icon) = {"LowVoltage", "OverCurrent", "Brownout"}

MemoryFaults == {"use_after_free", "double_free", "bad_source_remove", "dangling_unref"}

\* C4: power_destructor may be called twice: no resource is released twice
\* and none is used after its release.
C4_DestroyTwice ==
    /\ \A r \in Resources : released[r] <= 1
    /\ faults \cap MemoryFaults = {}

\* the tooltip of a set of flags: its lines in the fixed order, a line break
\* between two lines and none at the end
RECURSIVE JoinLines(_)
JoinLines(ls) ==
    IF Len(ls) = 0 THEN <<>>
    ELSE IF Len(ls) = 1 THEN <<ls[1]>>
    ELSE <<ls[1], "\n">> \o JoinLines(Tail(ls))

C5_Tooltip(F) ==
    JoinLines(
        (IF "LowVoltage" \in F THEN <<"PSU low voltage detected">> ELSE <<>>)
        \o (IF "OverCurrent" \in F THEN <<"USB over current detected">> ELSE <<>>)
        \o (IF "Brownout" \in F THEN <<"Low power reset has occurred">> ELSE <<>>))

\* C5: once update_icon has run, the icon is visible exactly when a flag is
\* set; with flags set the tooltip is their lines in the order LowVoltage,
\* OverCurrent, Brownout, joined by single line breaks; with no flag set
\* the icon is hidden and no tooltip has been set.
C5_UpdateIcon ==
    phase = "live" =>
        LET F == Flags(pt.show_icon) IN
        /\ icon.glyph # "" => (icon.visible <=> F # {})
        /\ F # {} => /\ icon.glyph # ""
                     /\ icon.tooltip_set
                     /\ icon.tooltip = C5_Tooltip(F)
        /\ F = {} => ~icon.tooltip_set /\ ~icon.visible

C5_Witness ==
    /\ phase = "live"
    /\ Flags(pt.show_icon) = {"LowVoltage", "OverCurrent"}
    /\ icon.visible
    /\ icon.tooltip = <<"PSU low voltage detected", "\n", "USB over current detected">>

\* the k-th byte (1..4) of a pseudo-file as the reader assembles it: a
\* missing byte reads as the end-of-file value, 0xFF
FileByte(f, k) == IF k <= Len(f.bytes) THEN f.bytes[k] ELSE 255

\* C6: check_brownout posts one Critical and sets Brownout when power_reset
\* is present and bit 0x02 of its big-endian value is set, and otherwise
\* changes nothing; check_psu, check_memres and check_user_warnings leave
\* the hazard flags and the stored counter alone.
C6_Brownout ==
    /\ [][pc = "check_brownout" =>
            IF loc'.file.present /\ (FileByte(loc'.file, 4) \div 2) % 2 = 1
            THEN /\ notified' = [notified EXCEPT !["brownout"] = @ + 1]
                 /\ Flags(pt'.show_icon) = Flags(pt.show_icon) \cup {"Brownout"}
                 /\ pt'.last_oc = pt.last_oc
            ELSE /\ notified' = notified
                 /\ pt'.show_icon = pt.show_icon
                 /\ pt'.last_oc = pt.last_oc]_vars
    /\ [][\/ pc = "loop" /\ pc' = "check_brownout"
          \/ pc = "check_memres"
          \/ pc = "check_user_warnings"
          => pt'.show_icon = pt.show_icon /\ pt'.last_oc = pt.last_oc]_vars

C6_Witness ==
    /\ pc = "check_memres"
    /\ loc.file = File(<<0, 0, 0, 2>>)
    /\ notified["brownout"] = 1
    /\ "Brownout" \in Flags(pt.show_icon)

\* C7: check_psu posts one Advisory exactly when the hardware is not exempt,
\* max_current is present and its unsigned 32-bit big-endian value
\* (b0<<24)|(b1<<16)|(b2<<8)|b3 is below 5000.
C7_PsuUnsigned ==
    [][pc = "loop" /\ pc' = "check_brownout"
       /\ (loc'.file.present => Len(loc'.file.bytes) = 4) =>
        LET f == loc'.file
            below == /\ f.bytes[1] = 0
                     /\ f.bytes[2] = 0
                     /\ f.bytes[3] * 256 + f.bytes[4] < 5000
        IN  IF ~loc'.exempt /\ f.present /\ below
            THEN notified' = [notified EXCEPT !["psu"] = @ + 1]
            ELSE notified' = notified]_vars

\* what the memory pipeline's first line means, -1 when it is no number
C8_Mem(out) ==
    CASE ~out.isnull /\ out.str = <<"2", "5", "5", "\n">> -> 255
      [] ~out.isnull /\ out.str = <<"2", "5", "6", "\n">> -> 256
      [] ~out.isnull /\ out.str = <<"2", "0", "4", "8", "\n">> -> 2048
      [] ~out.isnull /\ out.str = <<"2", "0", "4", "9", "\n">> -> 2049
      [] OTHER -> -1

\* the height an output pipeline's first line gives, 0 when it gives none
C8_Height(out) ==
    CASE ~out.isnull /\ out.str = <<"1", "9", "2", "0", "x", "1", "2", "0", "0", "\n">> -> 1200
      [] ~out.isnull /\ out.str = <<"1", "9", "2", "0", "x", "1", "2", "0", "1", "\n">> -> 1201
      [] OTHER -> 0

\* C8: check_memres posts one Advisory exactly when 256 <= mem <= 2048 and
\* the larger of the two outputs' heights exceeds 1200; a memory probe that
\* gives no number posts nothing, and an output that gives no data is
\* skipped while the other one still counts.
C8_Memres ==
    [][pc = "check_memres" =>
        LET mem == C8_Mem(loc'.mem)
            h1 == C8_Height(loc'.out1)
            h2 == C8_Height(loc'.out2)
        IN  IF /\ 256 <= mem
               /\ mem <= 2048
               /\ (IF h1 > h2 THEN h1 ELSE h2) > 1200
            THEN notified' = [notified EXCEPT !["memres"] = @ + 1]
            ELSE notified' = notified]_vars

\* memory at the upper bound, the first output missing, the second 1201 high
C8_Witness ==
    /\ pc = "check_user_warnings"
    /\ loc.mem.str = <<"2", "0", "4", "8", "\n">>
    /\ loc.out1.isnull
    /\ loc.out2.str = <<"1", "9", "2", "0", "x", "1", "2", "0", "1", "\n">>
    /\ notified["memres"] = 1

AllChecks == <<"check_psu", "check_brownout", "check_memres", "check_user_warnings">>

\* C9: on target hardware startup_checks runs exactly once: unless
\* power_destructor is called it eventually runs, it never runs again, and
\* when it has returned startup_id is 0 and the four checks have run.
C9_StartupOnce ==
    /\ [](Len(ran) <= 4)
    /\ [](is_pi /\ phase = "live" /\ pc = "loop" /\ ran # <<>> =>
            pt.startup_id = 0 /\ ran = AllChecks)
    /\ (is_pi /\ phase = "live") ~>
            (phase = "freed" \/ (pc = "loop" /\ ran = AllChecks /\ pt.startup_id = 0))

\* the same, for as long as the process lives
C9_WhileAlive ==
    /\ [](Len(ran) <= 4)
    /\ [](is_pi /\ phase = "live" /\ pc = "loop" /\ ran # <<>> =>
            pt.startup_id = 0 /\ ran = AllChecks)
    /\ (is_pi /\ phase = "live") ~>
            (phase \in {"freed", "crashed"}
                \/ (pc = "loop" /\ ran = AllChecks /\ pt.startup_id = 0))

\* C10: on other hardware power_init creates no udev object, no source and
\* no startup task, and until power_destructor no flag is set, nothing is
\* posted and the icon stays hidden, reconfigure signals included.
C10_Quiescent ==
    ~is_pi /\ phase = "live" =>
        /\ sources = {}
        /\ objs = {}
        /\ pt.udev = "NULL" /\ pt.udev_mon_oc = "NULL" /\ pt.udev_mon_lv = "NULL"
        /\ pt.overcurrent_id = 0 /\ pt.lowvoltage_id = 0 /\ pt.startup_id = 0
        /\ pending = [oc |-> 0, lv |-> 0]
        /\ Flags(pt.show_icon) = {}
        /\ \A m \in Messages : notified[m] = 0
        /\ ran = <<>>
        /\ ~icon.visible

\* a reconfigure signal has been handled on other hardware
C10_Witness ==
    /\ ~is_pi
    /\ phase = "live"
    /\ icon.glyph = "under-volt"
    /\ ~icon.visible

\* the source a channel's handle names
ChannelSource(id, cb) == [id |-> id, cb |-> cb]

\* C11: both device callbacks return "continue" on every branch: every
\* handled event ends with control back in the loop, the process running
\* and the set of sources as it was, so between power_init and
\* power_destructor each channel whose handle was set is still attached.
C11_Continue ==
    /\ [][pc = "cb_overcurrent_fd" \/ pc = "cb_lowvoltage_fd" =>
            phase' = phase /\ sources' = sources /\ pc' = "loop"]_vars
    /\ [](phase = "live" =>
            /\ pt.overcurrent_id # 0 =>
                 ChannelSource(pt.overcurrent_id, "cb_overcurrent_fd") \in sources
            /\ pt.lowvoltage_id # 0 =>
                 ChannelSource(pt.lowvoltage_id, "cb_lowvoltage_fd") \in sources)

\* the same, for the callbacks that return
C11_WhileAlive ==
    /\ [][(pc = "cb_overcurrent_fd" \/ pc = "cb_lowvoltage_fd") /\ phase' = "live" =>
            sources' = sources /\ pc' = "loop"]_vars
    /\ [](phase = "live" =>
            /\ pt.overcurrent_id # 0 =>
                 ChannelSource(pt.overcurrent_id, "cb_overcurrent_fd") \in sources
            /\ pt.lowvoltage_id # 0 =>
                 ChannelSource(pt.lowvoltage_id, "cb_lowvoltage_fd") \in sources)

\* an overcurrent event that is confirmed and carries an integer counter
C12_Confirmed(ev) ==
    /\ ev.dev
    /\ ev.action = "change"
    /\ ~ev.port.isnull
    /\ FirstByteIsOne(ev.disable)
    /\ CountIsInt(ev.count)

\* C12: the stored counter starts at a value no event's counter can equal:
\* the first confirmed overcurrent event posts a Critical and sets
\* OverCurrent whatever integer it carries, and so OverCurrent is set
\* exactly when the stored counter is not the initial one.
C12_Sentinel ==
    /\ [][pc = "cb_overcurrent_fd" /\ ocSeen = <<>> /\ C12_Confirmed(loc.ev) =>
            /\ notified' = [notified EXCEPT !["overcurrent"] = @ + 1]
            /\ "OverCurrent" \in Flags(pt'.show_icon)]_vars
    /\ [](is_pi /\ phase = "live" =>
            ("OverCurrent" \in Flags(pt.show_icon) <=> pt.last_oc # -1))

\* an overcurrent "change" event whose data is missing or malformed: no
\* OVER_CURRENT_PORT, or disable reads '1' and OVER_CURRENT_COUNT is absent
\* or no integer
C13_Bad(ev) ==
    /\ ev.dev
    /\ ev.action = "change"
    /\ \/ ev.port.isnull
       \/ FirstByteIsOne(ev.disable) /\ ~CountIsInt(ev.count)

\* C13: an overcurrent event with missing or malformed data is handled to
\* completion: the process goes on, nothing is posted, flags and stored
\* counter keep their values, the source stays attached, and no absent
\* property is ever read as a string.
C13_Malformed ==
    /\ [][pc = "cb_overcurrent_fd" /\ C13_Bad(loc.ev) =>
            /\ phase' = phase
            /\ notified' = notified
            /\ pt' = pt
            /\ sources' = sources
            /\ pc' = "loop"]_vars
    /\ []("null_deref" \notin faults)

\* whether resource r exists: a udev object that is alive, a source that is
\* attached
Created(r) ==
    CASE r = "overcurrent_src" -> Attached("cb_overcurrent_fd")
      [] r = "lowvoltage_src" -> Attached("cb_lowvoltage_fd")
      [] r = "startup_src" -> Attached("startup_checks")
      [] r = "pt" -> TRUE
      [] OTHER -> r \in objs

\* C14: on target hardware a monitor that could not be created leaves its
\* channel without a source and with handle 0, a monitor that was created
\* has its source attached whatever became of the other one, and the
\* startup task is scheduled all the same; power_destructor then releases
\* exactly the resources that exist.
C14_SetupFailure ==
    /\ [](is_pi /\ phase = "live" =>
            /\ "udev_mon_oc" \notin objs =>
                 pt.overcurrent_id = 0 /\ ~Attached("cb_overcurrent_fd")
            /\ "udev_mon_lv" \notin objs =>
                 pt.lowvoltage_id = 0 /\ ~Attached("cb_lowvoltage_fd")
            /\ "udev_mon_oc" \in objs =>
                 /\ pt.overcurrent_id # 0
                 /\ ChannelSource(pt.overcurrent_id, "cb_overcurrent_fd") \in sources
            /\ "udev_mon_lv" \in objs =>
                 /\ pt.lowvoltage_id # 0
                 /\ ChannelSource(pt.lowvoltage_id, "cb_lowvoltage_fd") \in sources
            /\ ran = <<>> /\ pc = "loop" =>
                 /\ pt.startup_id # 0
                 /\ ChannelSource(pt.startup_id, "startup_checks") \in sources)
    /\ [][phase = "live" /\ phase' = "freed" =>
            \A r \in Resources :
                released'[r] = released[r] + (IF Created(r) THEN 1 ELSE 0)]_vars

\* the overcurrent monitor failed; the low-voltage channel has handled a
\* confirmed event, the startup checks have run, and power_destructor has
\* released the low-voltage side only
C14_Witness ==
    /\ is_pi
    /\ phase = "freed"
    /\ notified["lowvoltage"] > 0
    /\ ran = AllChecks
    /\ released = [r \in Resources |->
                     IF r \in {"lowvoltage_src", "udev_mon_lv", "udev", "pt"}
                     THEN 1 ELSE 0]

\* the notification counts of the messages in M are the same after the step
SameCounts(M) == \A m \in M : notified'[m] = notified[m]

StartupMessages == {"psu", "brownout", "memres", "userwarn"}

\* a step of startup_checks
StartupStep ==
    \/ pc = "loop" /\ pc' = "check_brownout"
    \/ pc = "check_brownout"
    \/ pc = "check_memres"
    \/ pc = "check_user_warnings"
    \/ pc = "startup_return"

\* each handler changes only its own part of the outcome: a callback leaves
\* the other channel's flag and count and the diagnostics' flag and counts
\* alone, and the startup checks leave both channels' flags, counts and
\* the stored counter alone and clear no flag
C15_Frame ==
    [][/\ pc = "cb_overcurrent_fd" =>
            /\ SameCounts(Messages \ {"overcurrent"})
            /\ Flags(pt'.show_icon) \ {"OverCurrent"} = Flags(pt.show_icon) \ {"OverCurrent"}
       /\ pc = "cb_lowvoltage_fd" =>
            /\ SameCounts(Messages \ {"lowvoltage"})
            /\ pt'.last_oc = pt.last_oc
            /\ Flags(pt'.show_icon) \ {"LowVoltage"} = Flags(pt.show_icon) \ {"LowVoltage"}
       /\ StartupStep =>
            /\ SameCounts(Messages \ StartupMessages)
            /\ pt'.last_oc = pt.last_oc
            /\ Flags(pt.show_icon) \subseteq Flags(pt'.show_icon)
            /\ Flags(pt'.show_icon) \ {"Brownout"} = Flags(pt.show_icon) \ {"Brownout"}]_vars

\* C15: the outcome does not depend on the interleaving of the startup
\* checks with the events of the two channels: each handler changes only
\* its own part of flags, stored counter and notification counts, flags
\* set before the startup checks are still set after them, and every run
\* that is not ended by power_destructor comes to the point where all
\* events sent have been handled and the four checks have run.
C15_Interleaving ==
    /\ C15_Frame
    /\ (is_pi /\ phase = "live") ~>
            \/ phase = "freed"
            \/ /\ phase = "live"
               /\ pc = "loop"
               /\ pending = [oc |-> 0, lv |-> 0]
               /\ ran = AllChecks

\* the same, for as long as the process lives
C15_WhileAlive ==
    /\ C15_Frame
    /\ (is_pi /\ phase = "live") ~>
            \/ phase \in {"freed", "crashed"}
            \/ /\ phase = "live"
               /\ pc = "loop"
               /\ pending = [oc |-> 0, lv |-> 0]
               /\ ran = AllChecks

\* C16: update_icon runs in the same handler as every change of the flags:
\* the step that changes them leaves the icon visible with the tooltip of
\* the new flags, so whenever control is back in the loop with a flag set
\* the icon is visible and its tooltip is that of the flags now set.
C16_Synchronous ==
    /\ [][phase = "live" /\ pt'.show_icon # pt.show_icon =>
            /\ icon'.visible
            /\ icon'.tooltip_set
            /\ icon'.tooltip = C5_Tooltip(Flags(pt'.show_icon))]_vars
    /\ [](phase = "live" /\ pc = "loop" /\ Flags(pt.show_icon) # {} =>
            /\ icon.visible
            /\ icon.tooltip = C5_Tooltip(Flags(pt.show_icon)))

\* back in the loop with the three flags set and shown
C16_Witness ==
    /\ phase = "live"
    /\ pc = "loop"
    /\ Flags(pt.show_icon) = {"LowVoltage", "OverCurrent", "Brownout"}
    /\ icon.visible
    /\ icon.tooltip = <<"PSU low voltage detected", "\n",
                        "USB over current detected", "\n",
                        "Low power reset has occurred">>

\* the stage of power_destructor a release belongs to
Rank(r) ==
    CASE r \in {"overcurrent_src", "lowvoltage_src", "startup_src"} -> 1
      [] r \in {"udev_mon_oc", "udev_mon_lv"} -> 2
      [] r = "udev" -> 3
      [] r = "pt" -> 4

\* the releases one call of power_destructor has added to the log
LastCall == SubSeq(releaseLog', Len(releaseLog) + 1, Len(releaseLog'))

\* C17: power_destructor removes every attached source, the pending
\* startup task included, before it releases a monitor, releases both
\* monitors before the udev context, and frees the plugin structure last.
C17_DestroyOrder ==
    [][phase' = "freed" /\ releaseLog' # releaseLog =>
        /\ \A i, j \in 1..Len(LastCall) :
               i < j => Rank(LastCall[i]) <= Rank(LastCall[j])
        /\ LastCall[Len(LastCall)] = "pt"
        /\ \A i \in 1..(Len(LastCall) - 1) : LastCall[i] # "pt"]_vars

\* both channels armed and the startup task still pending when destroyed
C17_Witness ==
    /\ phase = "freed"
    /\ releaseLog = <<"overcurrent_src", "lowvoltage_src", "startup_src",
                      "udev_mon_oc", "udev_mon_lv", "udev", "pt">>

\* a handle is non-zero exactly when a source of its callback is attached,
\* and then it is that source's id
HandleLive(id, cb) ==
    /\ id # 0 <=> Attached(cb)
    /\ id # 0 => ChannelSource(id, cb) \in sources

SourceResources == {"overcurrent_src", "lowvoltage_src", "startup_src"}

\* C18: between power_init and power_destructor each of overcurrent_id,
\* lowvoltage_id and startup_id is non-zero exactly when its source is
\* attached, startup_id until startup_checks has returned; so one
\* power_destructor, whatever was created and whether the startup task is
\* pending or done, removes each attached source once, removes no source
\* that is gone, and leaves no source and no udev object behind.
C18_Handles ==
    /\ [](phase = "live" =>
            /\ HandleLive(pt.overcurrent_id, "cb_overcurrent_fd")
            /\ HandleLive(pt.lowvoltage_id, "cb_lowvoltage_fd")
            /\ HandleLive(pt.startup_id, "startup_checks"))
    /\ [][phase = "live" /\ phase' = "freed" =>
            /\ \A r \in SourceResources :
                   released'[r] = IF Created(r) THEN 1 ELSE 0
            /\ "bad_source_remove" \notin faults'
            /\ sources' = {}
            /\ objs' = {}]_vars

\* destroyed once after the startup task has run: the two channel sources
\* were removed, the expired startup source was not
C18_Witness ==
    /\ phase = "freed"
    /\ ran = AllChecks
    /\ released["pt"] = 1
    /\ released["overcurrent_src"] = 1
    /\ released["lowvoltage_src"] = 1
    /\ released["startup_src"] = 0
    /\ faults = {}

\* C19: once power_destructor has returned no source of the plugin is
\* attached, so the loop dispatches neither callback nor the startup
\* checks any more, not for an event that was waiting on a monitor's socket
\* and not for a startup task that was still pending: no handler starts,
\* nothing is posted, and the display is not touched.
C19_NoDispatch ==
    /\ [](phase = "freed" => sources = {} /\ pc = "loop" /\ loc = NoLoc)
    /\ [][phase = "freed" =>
            /\ pc' = "loop"
            /\ notified' = notified
            /\ icon' = icon
            /\ ran' = ran
            /\ ocSeen' = ocSeen]_vars

\* destroyed with an event sent and the startup task pending: both channel
\* sources and the startup source were removed, no check has run
C19_Witness ==
    /\ is_pi
    /\ phase = "freed"
    /\ arrived = 1
    /\ ran = <<>>
    /\ \A m \in Messages : notified[m] = 0
    /\ icon.glyph = ""
    /\ \A r \in SourceResources : released[r] = 1

\* C20: cb_lowvoltage_fd does not remember what it has reported: a
\* confirmed low-voltage event that finds LowVoltage already set posts one
\* more Critical and shows the flags again, and changes no flag; so the
\* flag is set from the first Critical on, however many follow.
C20_NoDedup ==
    /\ [][(pc = "cb_lowvoltage_fd"
            /\ C2_Fires(loc.ev)
            /\ "LowVoltage" \in Flags(pt.show_icon)) =>
            /\ notified' = [notified EXCEPT !["lowvoltage"] = @ + 1]
            /\ pt'.show_icon = pt.show_icon
            /\ icon'.visible
            /\ icon'.tooltip = C5_Tooltip(Flags(pt.show_icon))]_vars
    /\ [](phase = "live" /\ notified["lowvoltage"] > 0 =>
            "LowVoltage" \in Flags(pt.show_icon))

\* three confirmed low-voltage events: three Criticals, one flag
C20_Witness ==
    /\ phase = "live"
    /\ pc = "loop"
    /\ notified["lowvoltage"] = 3
    /\ arrived = 3
    /\ Flags(pt.show_icon) = {"LowVoltage"}

====
